---- MODULE Spec2Model ----
(***************************************************************************)
(* COSE_Encrypt message orchestration (cose/messages/encmessage.py).       *)
(*                                                                         *)
(* Byte strings are modelled as integers:                                  *)
(*   Empty (0)            the empty byte string b''                        *)
(*   Vals                 byte strings supplied by the caller              *)
(*   Rand(n)              the n-th output of os.urandom (pairwise distinct *)
(*                        and distinct from every caller value)            *)
(*   Kdf(kek)             a key derived by key agreement                   *)
(*   Wrap(kek, v)         v wrapped under the key-encryption key kek       *)
(* All unwrapped values are multiples of 10, a wrapped value is not, so a  *)
(* plain value is never mistaken for a wrapped one.                        *)
(* The Envelope payload is a record [data, layers]: the plaintext and the  *)
(* keys it has been sealed under, innermost first.                         *)
(***************************************************************************)
EXTENDS Integers, Sequences, FiniteSets, TLC

\* ---------------------------------------------------------------- bounds
MaxObj == 2        \* objects (recipients and others) the caller creates
MaxDecoded == 2    \* recipients reconstructed by decode
MaxArg == 2        \* longest sequence handed to the constructor or the setter
MaxList == 2       \* longest recipient list an Envelope is driven to
MaxRand == 2       \* calls of os.urandom
MaxLayers == 2     \* seals a payload is carried under, one on top of the other
MaxPass == 3       \* longest recipient list the key-wrap pass is run over

\* ------------------------------------------------------------- constants
Empty == 0
NoKey == -1

Vals == {10, 20}
Keks == {1, 2}
Variants == {"DirectEncryption", "DirectKeyAgreement", "KeyWrap", "KeyAgreementWithKeyWrap"}
WrapVariants == {"KeyWrap", "KeyAgreementWithKeyWrap"}
\* "Other" is an object that is no CoseRecipient, "Free" an unallocated slot
Kinds == Variants \cup {"Other"}
Faults == {"ValueError", "IndexError", "CoseException"}

Rand(n) == 100 + 10 * n
Kdf(kek) == 1000 + 10 * kek
Wrap(kek, v) == 10 * v + kek
IsWrapped(kek, p) == p % 10 = kek
Unwrap(p) == p \div 10

EmptyPayload == [data |-> Empty, layers |-> <<>>]
Seal(key, payload) == [payload EXCEPT !.layers = Append(@, key)]
CanOpen(key, payload) ==
    /\ Len(payload.layers) > 0
    /\ payload.layers[Len(payload.layers)] = key
Open(payload) == [payload EXCEPT !.layers = SubSeq(@, 1, Len(@) - 1)]

MaxHeap == MaxObj + MaxDecoded
Range(s) == {s[i] : i \in DOMAIN s}
SeqsUpTo(S, n) == UNION {[1..k -> S] : k \in 0..n}

VARIABLES
    obj,      \* the heap: object id -> [kind, payload, kek]; the ids up to
              \* MaxObj are the caller's objects, the others hold the
              \* recipients of decoded messages
    nobj,     \* number of objects the caller has created
    env,      \* Envelope -> [recipients, key, payload]
    nrand,    \* number of os.urandom outputs drawn
    wire,     \* the array of the last encoded message
    last      \* the last call: its operation, Envelope, recipient argument,
              \* error, return value, whether the AEAD step was called, and
              \* the carrier payloads the recipients held before it

vars == <<obj, nobj, env, nrand, wire, last>>

FreeObj == [kind |-> "Free", payload |-> Empty, kek |-> NoKey]
NoWire == <<>>
Call(op, e, arg, err, ret, aead, pre) ==
    [op |-> op, env |-> e, arg |-> arg, err |-> err, ret |-> ret, aead |-> aead,
     pre |-> pre]
Caller(op, e) == Call(op, e, 0, "none", EmptyPayload, FALSE, <<>>)
NoCall == Caller("none", "A")

Allocated == {i \in 1..MaxHeap : obj[i].kind # "Free"}
Attachable == 1..nobj

\* a reconstructed recipient lives as long as a message holds it
Referenced(envs) == UNION {Range(envs[e].recipients) : e \in DOMAIN envs}
Collect(heap, envs) ==
    [i \in 1..MaxHeap |->
        IF i > MaxObj /\ i \notin Referenced(envs) THEN FreeObj ELSE heap[i]]

\* the first n free ids for reconstructed recipients, lowest first
RECURSIVE FreeIds(_, _, _)
FreeIds(heap, i, n) ==
    IF n = 0 \/ i > MaxHeap THEN <<>>
    ELSE IF heap[i].kind = "Free" THEN <<i>> \o FreeIds(heap, i + 1, n - 1)
    ELSE FreeIds(heap, i + 1, n)
Payloads(heap, rs) == [i \in DOMAIN rs |-> heap[rs[i]].payload]

\* ------------------------------------------------ recipient subsystem
\* CoseRecipient.verify_recipients: the set holding the single variant of a
\* uniform list (empty for an empty list); a mixed list is an error.
verify_recipients(heap, rs) ==
    LET types == {heap[rs[i]].kind : i \in DOMAIN rs} IN
    IF Cardinality(types) > 1
    THEN [err |-> "UnsupportedRecipientClass", types |-> {}]
    ELSE [err |-> "none", types |-> types]

\* CoseRecipient.has_recipient: membership by object identity.
has_recipient(r, rs) == r \in Range(rs)

\* Recipient.compute_cek(target_alg, mode).
compute_cek(o, mode) ==
    IF o.kek = NoKey THEN [err |-> "KeyNotSet", key |-> NoKey]
    ELSE IF o.kind = "DirectKeyAgreement" THEN [err |-> "none", key |-> Kdf(o.kek)]
    ELSE IF o.kind \in WrapVariants /\ mode = "decrypt"
    THEN IF IsWrapped(o.kek, o.payload)
         THEN [err |-> "none", key |-> Unwrap(o.payload)]
         ELSE [err |-> "UnwrapFailure", key |-> NoKey]
    ELSE [err |-> "none", key |-> o.payload]

\* Recipient.encrypt(target_alg): the carrier payload wrapped under the
\* recipient's key, which must be there; the recipient object is left as
\* it is.
recipient_encrypt(o) ==
    IF o.kind \notin WrapVariants THEN [err |-> "none", bytes |-> o.payload]
    ELSE IF o.kek = NoKey THEN [err |-> "KeyNotSet", bytes |-> Empty]
    ELSE [err |-> "none", bytes |-> Wrap(o.kek, o.payload)]

\* Recipient.encode(target_alg): the recipient's wire structure.
recipient_encode(o) ==
    [kind |-> o.kind, payload |-> recipient_encrypt(o).bytes, fault |-> "none"]

\* CoseRecipient.create_recipient(wire_obj, context='Enc_Recipient').
create_recipient(item) ==
    [kind |-> item.kind, payload |-> item.payload, kek |-> NoKey]

\* ------------------------------------------------ common encryption base
\* EncCommon.encrypt() -> bytes: seal the payload under the Envelope's
\* key and return the ciphertext; the Envelope is left as it is.
base_encrypt(m) ==
    IF m.key = NoKey
    THEN [msg |-> m, err |-> "KeyNotSet", ret |-> EmptyPayload]
    ELSE [msg |-> m, err |-> "none", ret |-> Seal(m.key, m.payload)]

\* EncCommon.decrypt: open the payload under the Envelope's key.
base_decrypt(m) ==
    IF m.key = NoKey
    THEN [msg |-> m, err |-> "KeyNotSet", ret |-> EmptyPayload]
    ELSE IF ~CanOpen(m.key, m.payload)
    THEN [msg |-> m, err |-> "AuthenticationFailure", ret |-> EmptyPayload]
    ELSE [msg |-> m, err |-> "none", ret |-> Open(m.payload)]

\* ------------------------------------------------ EncMessage.recipients
RECURSIVE setter_loop(_, _, _, _)
setter_loop(heap, list, arg, i) ==
    IF i > Len(arg) THEN [list |-> list, err |-> "none"]
    ELSE IF heap[arg[i]].kind \notin Variants THEN [list |-> list, err |-> "TypeError"]
    ELSE setter_loop(heap, Append(list, arg[i]), arg, i + 1)

\* the property setter: None empties the list, a sequence is appended
\* element by element, stopping at the first that is no CoseRecipient
recipients_setter(heap, list, isNone, arg) ==
    IF isNone THEN [list |-> <<>>, err |-> "none"]
    ELSE setter_loop(heap, list, arg, 1)

\* ------------------------------------------------ EncMessage.encrypt
\* the pass without its else branch: a carried payload does not override
RECURSIVE key_wrap_pass_no_override(_, _, _, _)
key_wrap_pass_no_override(heap, rs, i, key_bytes) ==
    IF i > Len(rs) THEN [heap |-> heap, key_bytes |-> key_bytes, err |-> "none"]
    ELSE LET filled == IF heap[rs[i]].payload = Empty
                       THEN [heap EXCEPT ![rs[i]].payload = key_bytes] ELSE heap
             w == recipient_encrypt(filled[rs[i]])
         IN
         IF w.err # "none" THEN [heap |-> filled, key_bytes |-> key_bytes, err |-> w.err]
         ELSE key_wrap_pass_no_override(filled, rs, i + 1, key_bytes)

\* the pass that only gives the first recipient the key
RECURSIVE key_wrap_pass_first_only(_, _, _, _)
key_wrap_pass_first_only(heap, rs, i, key_bytes) ==
    IF i > Len(rs) THEN [heap |-> heap, key_bytes |-> key_bytes, err |-> "none"]
    ELSE LET filled == IF heap[rs[i]].payload = Empty /\ i = 1
                       THEN [heap EXCEPT ![rs[i]].payload = key_bytes] ELSE heap
             settled == IF heap[rs[i]].payload = Empty THEN key_bytes
                        ELSE heap[rs[i]].payload
             w == recipient_encrypt(filled[rs[i]])
         IN
         IF w.err # "none" THEN [heap |-> filled, key_bytes |-> settled, err |-> w.err]
         ELSE key_wrap_pass_first_only(filled, rs, i + 1, settled)

\* the pass that hands the generated key to every recipient, whatever it
\* carried
RECURSIVE key_wrap_pass_overwrite(_, _, _, _)
key_wrap_pass_overwrite(heap, rs, i, key_bytes) ==
    IF i > Len(rs) THEN [heap |-> heap, key_bytes |-> key_bytes, err |-> "none"]
    ELSE LET filled == [heap EXCEPT ![rs[i]].payload = key_bytes]
             w == recipient_encrypt(filled[rs[i]])
         IN
         IF w.err # "none" THEN [heap |-> filled, key_bytes |-> key_bytes, err |-> w.err]
         ELSE key_wrap_pass_overwrite(filled, rs, i + 1, key_bytes)

\* the loop over the recipients from the i-th on: the heap and the key
\* bytes it leaves, and the error of the recipient's encrypt that stopped it
RECURSIVE key_wrap_pass(_, _, _, _)
key_wrap_pass(heap, rs, i, key_bytes) ==
    IF i > Len(rs) THEN [heap |-> heap, key_bytes |-> key_bytes, err |-> "none"]
    ELSE LET filled == IF heap[rs[i]].payload = Empty
                       THEN [heap EXCEPT ![rs[i]].payload = key_bytes] ELSE heap
             settled == IF heap[rs[i]].payload = Empty THEN key_bytes
                        ELSE heap[rs[i]].payload
             w == recipient_encrypt(filled[rs[i]])
         IN
         IF w.err # "none" THEN [heap |-> filled, key_bytes |-> settled, err |-> w.err]
         ELSE key_wrap_pass(filled, rs, i + 1, settled)

Outcome(m, heap, n, err, ret, aead) ==
    [msg |-> m, heap |-> heap, nrand |-> n, err |-> err, ret |-> ret, aead |-> aead]

\* the outcome of a branch that ends in the AEAD call b of the base
Sealed(b, heap, n) == Outcome(b.msg, heap, n, b.err, b.ret, TRUE)

\* the chain whose last branch takes an unclassified list for Direct
\* Encryption
encrypt_branch_else_direct(m, heap, n, r_types) ==
    LET rs == m.recipients IN
    IF "DirectEncryption" \in r_types THEN Sealed(base_encrypt(m), heap, n)
    ELSE IF "DirectKeyAgreement" \in r_types
    THEN LET c == compute_cek(heap[rs[1]], "encrypt") IN
         IF c.err # "none" THEN Outcome(m, heap, n, c.err, EmptyPayload, FALSE)
         ELSE Sealed(base_encrypt([m EXCEPT !.key = c.key]), heap, n)
    ELSE IF "KeyWrap" \in r_types \/ "KeyAgreementWithKeyWrap" \in r_types
    THEN LET p == key_wrap_pass(heap, rs, 1, Rand(n + 1)) IN
         IF p.err # "none" THEN Outcome(m, p.heap, n + 1, p.err, EmptyPayload, FALSE)
         ELSE Sealed(base_encrypt([m EXCEPT !.key = p.key_bytes]), p.heap, n + 1)
    ELSE Sealed(base_encrypt(m), heap, n)

\* the chain whose key-agreement branch asks the last recipient
encrypt_branch_last_agrees(m, heap, n, r_types) ==
    LET rs == m.recipients IN
    IF "DirectEncryption" \in r_types THEN Sealed(base_encrypt(m), heap, n)
    ELSE IF "DirectKeyAgreement" \in r_types
    THEN LET c == compute_cek(heap[rs[Len(rs)]], "encrypt") IN
         IF c.err # "none" THEN Outcome(m, heap, n, c.err, EmptyPayload, FALSE)
         ELSE Sealed(base_encrypt([m EXCEPT !.key = c.key]), heap, n)
    ELSE IF "KeyWrap" \in r_types \/ "KeyAgreementWithKeyWrap" \in r_types
    THEN LET p == key_wrap_pass(heap, rs, 1, Rand(n + 1)) IN
         IF p.err # "none" THEN Outcome(m, p.heap, n + 1, p.err, EmptyPayload, FALSE)
         ELSE Sealed(base_encrypt([m EXCEPT !.key = p.key_bytes]), p.heap, n + 1)
    ELSE Outcome(m, heap, n, "UnsupportedRecipientClass", EmptyPayload, FALSE)

\* the chain whose key-wrap branch sets the generated key as the CEK,
\* whatever the pass settled
encrypt_branch_fresh_cek(m, heap, n, r_types) ==
    LET rs == m.recipients IN
    IF "DirectEncryption" \in r_types THEN Sealed(base_encrypt(m), heap, n)
    ELSE IF "DirectKeyAgreement" \in r_types
    THEN LET c == compute_cek(heap[rs[1]], "encrypt") IN
         IF c.err # "none" THEN Outcome(m, heap, n, c.err, EmptyPayload, FALSE)
         ELSE Sealed(base_encrypt([m EXCEPT !.key = c.key]), heap, n)
    ELSE IF "KeyWrap" \in r_types \/ "KeyAgreementWithKeyWrap" \in r_types
    THEN LET p == key_wrap_pass(heap, rs, 1, Rand(n + 1)) IN
         IF p.err # "none" THEN Outcome(m, p.heap, n + 1, p.err, EmptyPayload, FALSE)
         ELSE Sealed(base_encrypt([m EXCEPT !.key = Rand(n + 1)]), p.heap, n + 1)
    ELSE Outcome(m, heap, n, "UnsupportedRecipientClass", EmptyPayload, FALSE)

\* the if/elif chain of encrypt over the classification r_types
encrypt_branch(m, heap, n, r_types) ==
    LET rs == m.recipients IN
    IF "DirectEncryption" \in r_types THEN Sealed(base_encrypt(m), heap, n)
    ELSE IF "DirectKeyAgreement" \in r_types
    THEN LET c == compute_cek(heap[rs[1]], "encrypt") IN
         IF c.err # "none" THEN Outcome(m, heap, n, c.err, EmptyPayload, FALSE)
         ELSE Sealed(base_encrypt([m EXCEPT !.key = c.key]), heap, n)
    ELSE IF "KeyWrap" \in r_types \/ "KeyAgreementWithKeyWrap" \in r_types
    THEN LET p == key_wrap_pass(heap, rs, 1, Rand(n + 1)) IN
         IF p.err # "none" THEN Outcome(m, p.heap, n + 1, p.err, EmptyPayload, FALSE)
         ELSE Sealed(base_encrypt([m EXCEPT !.key = p.key_bytes]), p.heap, n + 1)
    ELSE Outcome(m, heap, n, "UnsupportedRecipientClass", EmptyPayload, FALSE)

\* encrypt that classifies by the variants present without verifying them
encrypt_outcome_unverified(m, heap, n) ==
    encrypt_branch(m, heap, n, {heap[m.recipients[i]].kind : i \in DOMAIN m.recipients})

\* the whole of encrypt on message m: the message, heap and random count
\* it leaves, its error or return value, and whether the AEAD step ran
encrypt_outcome(m, heap, n) ==
    LET v == verify_recipients(heap, m.recipients) IN
    IF v.err # "none" THEN Outcome(m, heap, n, v.err, EmptyPayload, FALSE)
    ELSE encrypt_branch(m, heap, n, v.types)

\* ------------------------------------------------ EncMessage.decrypt
\* the chain that derives the key from the first recipient of the list
decrypt_branch_first_derives(m, heap, n, r, r_types) ==
    IF "DirectEncryption" \in r_types THEN Sealed(base_decrypt(m), heap, n)
    ELSE IF \/ "DirectKeyAgreement" \in r_types
            \/ "KeyWrap" \in r_types
            \/ "KeyAgreementWithKeyWrap" \in r_types
    THEN LET c == compute_cek(heap[m.recipients[1]], "decrypt") IN
         IF c.err # "none" THEN Outcome(m, heap, n, c.err, EmptyPayload, FALSE)
         ELSE Sealed(base_decrypt([m EXCEPT !.key = c.key]), heap, n)
    ELSE Outcome(m, heap, n, "UnsupportedRecipientClass", EmptyPayload, FALSE)

\* the if/elif chain of decrypt over the classification r_types
decrypt_branch(m, heap, n, r, r_types) ==
    IF "DirectEncryption" \in r_types THEN Sealed(base_decrypt(m), heap, n)
    ELSE IF \/ "DirectKeyAgreement" \in r_types
            \/ "KeyWrap" \in r_types
            \/ "KeyAgreementWithKeyWrap" \in r_types
    THEN LET c == compute_cek(heap[r], "decrypt") IN
         IF c.err # "none" THEN Outcome(m, heap, n, c.err, EmptyPayload, FALSE)
         ELSE Sealed(base_decrypt([m EXCEPT !.key = c.key]), heap, n)
    ELSE Outcome(m, heap, n, "UnsupportedRecipientClass", EmptyPayload, FALSE)

\* decrypt once the recipient is known to be attached
decrypt_member(m, heap, n, r) ==
    LET v == verify_recipients(heap, m.recipients) IN
    IF v.err # "none" THEN Outcome(m, heap, n, v.err, EmptyPayload, FALSE)
    ELSE decrypt_branch(m, heap, n, r, v.types)

\* decrypt without the membership check
decrypt_outcome_unchecked(m, heap, n, r) == decrypt_member(m, heap, n, r)

decrypt_outcome(m, heap, n, r) ==
    IF ~has_recipient(r, m.recipients)
    THEN Outcome(m, heap, n, "RecipientNotFound", EmptyPayload, FALSE)
    ELSE decrypt_member(m, heap, n, r)

\* ------------------------------------------------ encode / decode
\* the fourth array element: each recipient's encoding, in list order
encode_recipients(heap, rs) == [i \in DOMAIN rs |-> recipient_encode(heap[rs[i]])]

\* the error of the first recipient that fails to encode
RECURSIVE encode_error(_, _, _)
encode_error(heap, rs, i) ==
    IF i > Len(rs) THEN "none"
    ELSE IF recipient_encrypt(heap[rs[i]]).err # "none"
    THEN recipient_encrypt(heap[rs[i]]).err
    ELSE encode_error(heap, rs, i + 1)

\* the array with a recipients element whatever the list holds
encode_message_always_four(m, heap, body) ==
    <<"phdr", "uhdr", body, encode_recipients(heap, m.recipients)>>

\* the array handed to CoseMessage.encode
encode_message(m, heap, body) ==
    IF Len(m.recipients) # 0
    THEN <<"phdr", "uhdr", body, encode_recipients(heap, m.recipients)>>
    ELSE <<"phdr", "uhdr", body>>

\* the first fault met while the recipients are reconstructed in order
RECURSIVE first_fault(_, _)
first_fault(items, i) ==
    IF i > Len(items) THEN "none"
    ELSE IF items[i].fault # "none" THEN items[i].fault
    ELSE first_fault(items, i + 1)

\* from_cose_obj on array arr: the error raised, or the payload and the
\* recipient structures of the decoded message
from_cose_obj(arr) ==
    IF Len(arr) < 3 THEN [err |-> "IndexError", payload |-> EmptyPayload, items |-> <<>>]
    ELSE IF Len(arr) < 4 THEN [err |-> "none", payload |-> arr[3], items |-> <<>>]
    ELSE LET f == first_fault(arr[4], 1) IN
         IF f \in {"IndexError", "ValueError"}
         THEN [err |-> "none", payload |-> arr[3], items |-> <<>>]
         ELSE IF f # "none" THEN [err |-> f, payload |-> EmptyPayload, items |-> <<>>]
         ELSE [err |-> "none", payload |-> arr[3], items |-> arr[4]]

\* ------------------------------------------------ state machine
Envs == DOMAIN env

InitWith(envelopes) ==
    /\ obj = [i \in 1..MaxHeap |-> FreeObj]
    /\ nobj = 0
    /\ env = [e \in envelopes |->
                [recipients |-> <<>>, key |-> NoKey, payload |-> EmptyPayload]]
    /\ nrand = 0
    /\ wire = NoWire
    /\ last = NoCall

\* the caller creates a recipient (or some other object)
NewObject(kind, payload, kek) ==
    /\ nobj < MaxObj
    /\ nobj' = nobj + 1
    /\ obj' = [obj EXCEPT ![nobj + 1] = [kind |-> kind, payload |-> payload, kek |-> kek]]
    /\ last' = Call("new", "A", nobj + 1, "none", EmptyPayload, FALSE, <<>>)
    /\ UNCHANGED <<env, nrand, wire>>

\* the caller gives a decoded recipient its key
SetRecipientKey(r, kek) ==
    /\ obj[r].kind \in Variants
    /\ obj[r].kek = NoKey
    /\ obj' = [obj EXCEPT ![r].kek = kek]
    /\ last' = Call("set_recipient_key", "A", r, "none", EmptyPayload, FALSE, <<>>)
    /\ UNCHANGED <<nobj, env, nrand, wire>>

\* msg.key = key
SetKey(e, key) ==
    /\ env[e].key # key
    /\ env' = [env EXCEPT ![e].key = key]
    /\ last' = Caller("set_key", e)
    /\ UNCHANGED <<obj, nobj, nrand, wire>>

\* msg.payload = the ciphertext the last encrypt on msg returned
SetPayload(e) ==
    /\ last.op = "encrypt" /\ last.env = e /\ last.err = "none"
    /\ env' = [env EXCEPT ![e].payload = last.ret]
    /\ last' = Caller("set_payload", e)
    /\ UNCHANGED <<obj, nobj, nrand, wire>>

\* EncMessage(payload=..., key=..., recipients=...)
Construct(e, data, key, isNone, arg) ==
    LET s == recipients_setter(obj, <<>>, isNone, arg) IN
    /\ env' = IF s.err = "none"
              THEN [env EXCEPT ![e] = [recipients |-> s.list, key |-> key,
                                       payload |-> [data |-> data, layers |-> <<>>]]]
              ELSE env
    /\ obj' = Collect(obj, env')
    /\ last' = Call("init", e, 0, s.err, EmptyPayload, FALSE, <<>>)
    /\ UNCHANGED <<nobj, nrand, wire>>

\* msg.recipients = arg
SetRecipients(e, isNone, arg) ==
    LET s == recipients_setter(obj, env[e].recipients, isNone, arg) IN
    /\ Len(s.list) <= MaxList
    /\ env' = [env EXCEPT ![e].recipients = s.list]
    /\ obj' = Collect(obj, env')
    /\ last' = Call("set_recipients", e, 0, s.err, EmptyPayload, FALSE, <<>>)
    /\ UNCHANGED <<nobj, nrand, wire>>

\* msg.encrypt()
encrypt(e) ==
    LET o == encrypt_outcome(env[e], obj, nrand) IN
    /\ Len(env[e].payload.layers) < MaxLayers
    /\ o.nrand <= MaxRand
    /\ env' = [env EXCEPT ![e] = o.msg]
    /\ obj' = o.heap
    /\ nrand' = o.nrand
    /\ last' = Call("encrypt", e, 0, o.err, o.ret, o.aead, Payloads(obj, env[e].recipients))
    /\ UNCHANGED <<nobj, wire>>

\* msg.decrypt(recipient)
decrypt(e, r) ==
    LET o == decrypt_outcome(env[e], obj, nrand, r) IN
    /\ env' = [env EXCEPT ![e] = o.msg]
    /\ obj' = o.heap
    /\ last' = Call("decrypt", e, r, o.err, o.ret, o.aead, <<>>)
    /\ UNCHANGED <<nobj, nrand, wire>>

\* msg.encode(encrypt=enc); the optional tag wraps the array and leaves
\* it as it is
encode(e, enc) ==
    LET o == IF enc THEN encrypt_outcome(env[e], obj, nrand)
             ELSE Outcome(env[e], obj, nrand, "none", env[e].payload, FALSE)
        err == IF o.err # "none" THEN o.err
               ELSE encode_error(o.heap, o.msg.recipients, 1)
    IN
    /\ enc => Len(env[e].payload.layers) < MaxLayers
    /\ o.nrand <= MaxRand
    /\ env' = [env EXCEPT ![e] = o.msg]
    /\ obj' = o.heap
    /\ nrand' = o.nrand
    /\ wire' = IF err = "none" THEN encode_message(o.msg, o.heap, o.ret) ELSE wire
    /\ last' = Call("encode", e, 0, err, EmptyPayload, o.aead,
                    IF enc THEN Payloads(obj, env[e].recipients) ELSE <<>>)
    /\ UNCHANGED nobj

\* the message on the wire loses its last array element
TruncateWire ==
    /\ Len(wire) >= 3
    /\ wire' = SubSeq(wire, 1, Len(wire) - 1)
    /\ last' = Caller("truncate", "A")
    /\ UNCHANGED <<obj, nobj, env, nrand>>

\* a recipient structure on the wire is damaged so that its
\* reconstruction raises fault f
CorruptRecipient(i, f) ==
    /\ Len(wire) = 4
    /\ i \in DOMAIN wire[4]
    /\ \A j \in DOMAIN wire[4] : wire[4][j].fault = "none"
    /\ wire' = [wire EXCEPT ![4][i].fault = f]
    /\ last' = Caller("corrupt", "A")
    /\ UNCHANGED <<obj, nobj, env, nrand>>

\* e = EncMessage.from_cose_obj(wire): the decoded message replaces e
decode(e) ==
    LET d == from_cose_obj(wire)
        n == Len(d.items)
        heap == Collect(obj, [env EXCEPT ![e].recipients = <<>>])
        ids == FreeIds(heap, MaxObj + 1, n)
    IN
    /\ Len(wire) > 0
    /\ n <= MaxDecoded
    /\ IF d.err = "none"
       THEN /\ Len(ids) = n
            /\ obj' = [i \in 1..MaxHeap |->
                         IF \E j \in 1..n : ids[j] = i
                         THEN create_recipient(d.items[CHOOSE j \in 1..n : ids[j] = i])
                         ELSE heap[i]]
            /\ env' = [env EXCEPT ![e] =
                         [recipients |-> ids, key |-> NoKey, payload |-> d.payload]]
       ELSE UNCHANGED <<obj, env>>
    /\ last' = Call("decode", e, 0, d.err, EmptyPayload, FALSE, <<>>)
    /\ UNCHANGED <<nobj, nrand, wire>>

\* ---- the orchestrator on one Envelope
Init == InitWith({"A"})

Next ==
    \/ \E k \in Kinds \ WrapVariants : NewObject(k, Empty, 1)
    \/ \E k \in WrapVariants, p \in Vals \cup {Empty} : NewObject(k, p, 1)
    \/ \E e \in Envs, k \in Vals \cup {NoKey} : SetKey(e, k)
    \/ \E e \in Envs, k \in {10, NoKey}, arg \in SeqsUpTo(Attachable, MaxArg) :
          Construct(e, 10, k, arg = <<>>, arg)
    \/ \E e \in Envs, isNone \in BOOLEAN, arg \in SeqsUpTo(Attachable, MaxArg) :
          (isNone => arg = <<>>) /\ SetRecipients(e, isNone, arg)
    \/ \E e \in Envs : encrypt(e)
    \/ \E e \in Envs : SetPayload(e)
    \/ \E e \in Envs, r \in Allocated : decrypt(e, r)

Spec == Init /\ [][Next]_vars

\* ---- the wire form: encode, damage in transit, decode
NextCodec ==
    \/ \E k \in Variants : NewObject(k, Empty, 1)
    \/ \E e \in Envs, arg \in SeqsUpTo(Attachable, MaxArg) :
          Construct(e, 10, 10, arg = <<>>, arg)
    \/ \E e \in Envs, enc \in BOOLEAN : encode(e, enc)
    \/ TruncateWire
    \/ \E i \in 1..MaxList, f \in Faults : CorruptRecipient(i, f)
    \/ \E e \in Envs : decode(e)

SpecCodec == Init /\ [][NextCodec]_vars

\* ---- Direct Encryption from construction to decrypt, through the wire
NextDirect ==
    \/ NewObject("DirectEncryption", Empty, 1)
    \/ \E e \in Envs, k \in Vals : SetKey(e, k)
    \/ \E e \in Envs, d \in Vals, k \in Vals \cup {NoKey},
          arg \in SeqsUpTo(Attachable, MaxArg) :
          Construct(e, d, k, arg = <<>>, arg)
    \/ \E e \in Envs : encrypt(e)
    \/ \E e \in Envs, enc \in BOOLEAN : encode(e, enc)
    \/ \E e \in Envs : decode(e)
    \/ \E e \in Envs, r \in Allocated : decrypt(e, r)

SpecDirect == Init /\ [][NextDirect]_vars

\* ---- two Envelopes and the key-wrap recipients they may share
InitShared == InitWith({"A", "B"})

NextShared ==
    \/ \E k \in WrapVariants : NewObject(k, Empty, 1)
    \/ \E e \in Envs, arg \in SeqsUpTo(Attachable, MaxArg) :
          Construct(e, 10, NoKey, arg = <<>>, arg)
    \/ \E e \in Envs : encrypt(e)

SpecShared == InitShared /\ [][NextShared]_vars

\* ---- the key-wrap pass over lists that may name a recipient twice
NextPass ==
    \/ \E k \in WrapVariants, p \in Vals \cup {Empty} : NewObject(k, p, 1)
    \/ \E e \in Envs, arg \in SeqsUpTo(Attachable, MaxPass) :
          Construct(e, 10, NoKey, arg = <<>>, arg)
    \/ \E e \in Envs : encrypt(e)

SpecPass == Init /\ [][NextPass]_vars

\* ---- recipients that hold different keys, or none
Carriers == {Empty, Wrap(1, 10)}

NextKeys ==
    \/ NewObject("DirectEncryption", Empty, 1)
    \/ \E kek \in Keks \cup {NoKey} : NewObject("DirectKeyAgreement", Empty, kek)
    \/ \E p \in Carriers, kek \in Keks : NewObject("KeyWrap", p, kek)
    \/ \E p \in Carriers : NewObject("KeyAgreementWithKeyWrap", p, 1)
    \/ \E e \in Envs, k \in {10, NoKey}, arg \in SeqsUpTo(Attachable, MaxArg) :
          Construct(e, 10, k, arg = <<>>, arg)
    \/ \E e \in Envs, isNone \in BOOLEAN, arg \in SeqsUpTo(Attachable, MaxArg) :
          (isNone => arg = <<>>) /\ SetRecipients(e, isNone, arg)
    \/ \E e \in Envs : encrypt(e)
    \/ \E e \in Envs : SetPayload(e)
    \/ \E e \in Envs, r \in Allocated : decrypt(e, r)

SpecKeys == Init /\ [][NextKeys]_vars

\* ------------------------------------------------ properties
KindsOf(e) == {obj[env[e].recipients[i]].kind : i \in DOMAIN env[e].recipients}
Carried(e, i) == obj[env[e].recipients[i]].payload
Mixed(e) == Cardinality(KindsOf(e)) > 1
WrapGroup(e) ==
    /\ Len(env[e].recipients) > 0
    /\ KindsOf(e) = {"KeyWrap"} \/ KindsOf(e) = {"KeyAgreementWithKeyWrap"}
EncryptedOk == last.op = "encrypt" /\ last.err = "none"
AllCarryCEK(e) == \A i \in DOMAIN env[e].recipients : Carried(e, i) = env[e].key
Agreeing(pre) == \A i \in DOMAIN pre : pre[i] \in {Empty, pre[1]}

\* C1: a recipient assignment that fails with a type error leaves the
\* Envelope's recipient list as it was: nothing of the rejected sequence,
\* not even its valid prefix, is retained.
C1_AssignmentAtomic ==
    [][\A e \in Envs, arg \in SeqsUpTo(Attachable, MaxArg) :
         (SetRecipients(e, FALSE, arg) /\ last'.err = "TypeError")
             => env'[e].recipients = env[e].recipients]_vars

\* C2 as claimed: after a successful encrypt on an all-KeyWrap (or
\* all-KeyAgreementWithKeyWrap) Envelope every recipient carries the same
\* bytes, the Envelope's CEK, whatever the carriers held before.
C2_AllShareCEK == (EncryptedOk /\ WrapGroup(last.env)) => AllCarryCEK(last.env)

\* C2 amended: the same, when the carriers that were pre-populated all held
\* one value and the first recipient was among them (or none was
\* pre-populated).
C2_AgreeingShareCEK ==
    (EncryptedOk /\ WrapGroup(last.env) /\ Agreeing(last.pre)) => AllCarryCEK(last.env)

C2_Witness ==
    /\ EncryptedOk /\ WrapGroup(last.env)
    /\ Len(last.pre) = 2
    /\ env[last.env].recipients[1] # env[last.env].recipients[2]
    /\ \A i \in DOMAIN last.pre : last.pre[i] = Empty
    /\ env[last.env].key = Rand(nrand)
    /\ AllCarryCEK(last.env)

\* C3 as claimed: when the first recipient of a key-wrap group carried a
\* non-empty V before encrypt, every later recipient carries V afterwards,
\* whatever it carried before.
C3_FirstOverridesAll ==
    (EncryptedOk /\ WrapGroup(last.env) /\ last.pre[1] # Empty)
        => \A i \in 2..Len(last.pre) : Carried(last.env, i) = last.pre[1]

\* C3 amended: when the first recipient carried a non-empty V and every
\* later recipient carried nothing or V, every later recipient carries V
\* afterwards, not the freshly generated key, and V is the CEK.
C3_FirstOverridesEmpty ==
    (/\ EncryptedOk /\ WrapGroup(last.env) /\ last.pre[1] # Empty
     /\ \A i \in 2..Len(last.pre) : last.pre[i] \in {Empty, last.pre[1]})
        => /\ \A i \in 2..Len(last.pre) :
                /\ Carried(last.env, i) = last.pre[1]
                /\ Carried(last.env, i) # Rand(nrand)
           /\ env[last.env].key = last.pre[1]

C3_Witness ==
    /\ EncryptedOk /\ WrapGroup(last.env)
    /\ Len(last.pre) = 2
    /\ env[last.env].recipients[1] # env[last.env].recipients[2]
    /\ last.pre[1] \in Vals /\ last.pre[2] = Empty
    /\ Carried(last.env, 2) = last.pre[1]

\* C4: whenever an encrypt or decrypt call has finished, by returning or by
\* failing, the Envelope holds no key.
C4_KeyEphemeral ==
    last.op \in {"encrypt", "decrypt"} => env[last.env].key = NoKey

\* C7: encrypt on an Envelope whose recipients mix variants fails with
\* Unsupported Recipient Class, without calling the AEAD step, returning
\* nothing and leaving the Envelope (its key included) and the recipients
\* as they were.
C7_MixedRejected ==
    [][\A e \in Envs :
         (encrypt(e) /\ Mixed(e))
             => /\ last'.err = "UnsupportedRecipientClass"
                /\ ~last'.aead
                /\ last'.ret = EmptyPayload
                /\ env' = env /\ obj' = obj]_vars

C7_Witness ==
    /\ last.op = "encrypt" /\ last.err = "UnsupportedRecipientClass"
    /\ KindsOf(last.env) = {"DirectEncryption", "KeyWrap"}
    /\ env[last.env].key # NoKey

\* C8: decrypt with a recipient that is not in the Envelope's list fails
\* with Recipient Not Found before anything else happens: the AEAD step is
\* not called and the Envelope and every recipient are unchanged.
C8_NotFoundFirst ==
    [][\A e \in Envs, r \in Allocated :
         (decrypt(e, r) /\ r \notin Range(env[e].recipients))
             => /\ last'.err = "RecipientNotFound"
                /\ ~last'.aead
                /\ env' = env /\ obj' = obj]_vars

C8_Witness ==
    /\ last.op = "decrypt" /\ last.err = "RecipientNotFound"
    /\ last.arg \notin Range(env[last.env].recipients)
    /\ \E i \in DOMAIN env[last.env].recipients :
          obj[env[last.env].recipients[i]] = obj[last.arg]

\* C5: two Envelopes that have each settled a CEK by a key-wrap encrypt,
\* none of it pre-populated by the caller, do not hold the same CEK, also
\* when they share Recipient objects.
C5_NotSharedAcrossEnvelopes ==
    (env["A"].key # NoKey /\ env["B"].key # NoKey) => env["A"].key # env["B"].key

\* C6: encrypt on an Envelope with a key and an empty recipient list (the
\* Direct Encryption Envelope made of a payload and a pre-shared key)
\* succeeds.
C6_EmptyListEncrypts ==
    (/\ last.op = "encrypt"
     /\ Len(env[last.env].recipients) = 0
     /\ env[last.env].key # NoKey) => last.err = "none"

Intact(arr) ==
    /\ Len(arr) \in {3, 4}
    /\ Len(arr) = 4 => \A i \in DOMAIN arr[4] : arr[4][i].fault = "none"

\* C9: encode emits three array elements exactly when the Envelope has no
\* recipients and four when it has N >= 1, the fourth holding the N
\* recipients' encodings in list order; decoding either form gives an
\* Envelope with 0 or N recipients, in the same order.
C9_ArrayShape ==
    [][\A e \in Envs :
         /\ \A enc \in BOOLEAN :
              (encode(e, enc) /\ last'.err = "none") =>
                  LET rs == env[e].recipients IN
                  /\ Len(wire') = IF Len(rs) = 0 THEN 3 ELSE 4
                  /\ Len(rs) > 0 =>
                        /\ Len(wire'[4]) = Len(rs)
                        /\ \A i \in DOMAIN rs : wire'[4][i].kind = obj[rs[i]].kind
         /\ (decode(e) /\ Intact(wire)) =>
                  LET rs == env'[e].recipients IN
                  /\ last'.err = "none"
                  /\ Len(rs) = IF Len(wire) = 3 THEN 0 ELSE Len(wire[4])
                  /\ \A i \in DOMAIN rs : obj'[rs[i]].kind = wire[4][i].kind]_vars

C9_Witness ==
    /\ last.op = "decode" /\ last.err = "none"
    /\ Len(wire) = 4 /\ Len(wire[4]) = 2
    /\ Len(env[last.env].recipients) = 2
    /\ env[last.env].recipients[1] # env[last.env].recipients[2]

\* C10: decode turns nothing but the absence of the recipients array into
\* an empty recipient list: a recipient structure that is present and
\* fails to be reconstructed makes decode fail, as does an array too short
\* for the base fields.
C10_OnlyAbsenceSwallowed ==
    /\ (/\ last.op = "decode"
        /\ Len(wire) = 4
        /\ \E i \in DOMAIN wire[4] : wire[4][i].fault # "none") => last.err # "none"
    /\ (last.op = "decode" /\ Len(wire) < 3) => last.err # "none"

\* C11: whenever encrypt or decrypt has called the AEAD step of the base,
\* the Envelope's key was set; with DirectEncryption recipients and no key
\* from the caller the step is not called.
C11_KeySetBeforeAead ==
    (last.op \in {"encrypt", "decrypt"} /\ last.aead) => env[last.env].key # NoKey

\* C12: a successful encrypt returns the ciphertext and leaves it as the
\* Envelope's stored payload: the payload it held before, sealed under the
\* Envelope's key, and no longer that payload itself.
C12_CiphertextStored ==
    [][\A e \in Envs :
         (encrypt(e) /\ last'.err = "none")
             => /\ last'.ret = env'[e].payload
                /\ env'[e].payload # env[e].payload
                /\ env'[e].key # NoKey
                /\ CanOpen(env'[e].key, env'[e].payload)
                /\ Open(env'[e].payload) = env[e].payload]_vars

Distinct(rs) == \A i, j \in DOMAIN rs : rs[i] = rs[j] => i = j
AllEmpty(pre) == \A i \in DOMAIN pre : pre[i] = Empty

\* the group key after the first i recipients of a pass over carriers pre
\* that started from the generated key fresh: the last non-empty carrier
\* among them, or fresh
RECURSIVE GroupKey(_, _, _)
GroupKey(pre, i, fresh) ==
    IF i = 0 THEN fresh
    ELSE IF pre[i] # Empty THEN pre[i]
    ELSE GroupKey(pre, i - 1, fresh)

\* C13 as claimed: after a successful key-wrap encrypt the CEK is the
\* carrier payload of the last recipient, and it is the freshly generated
\* key only when every recipient started empty.
C13_LeftToRightPass ==
    LET e == last.env IN
    (EncryptedOk /\ WrapGroup(e))
        => /\ env[e].key = Carried(e, Len(env[e].recipients))
           /\ env[e].key = Rand(nrand) => AllEmpty(last.pre)

\* C13 amended: the CEK is the carrier payload of the last recipient; when
\* no Recipient object occurs twice in the list, each recipient ends with
\* the group key of its position (the last non-empty carrier up to it, else
\* the generated key), the CEK is the group key of the last position, and
\* the CEK is the generated key exactly when every recipient started empty.
C13_LeftToRightPassDistinct ==
    LET e == last.env
        rs == env[e].recipients
        fresh == Rand(nrand)
    IN
    (EncryptedOk /\ WrapGroup(e))
        => /\ env[e].key = Carried(e, Len(rs))
           /\ Distinct(rs) =>
                /\ \A i \in DOMAIN rs : Carried(e, i) = GroupKey(last.pre, i, fresh)
                /\ env[e].key = GroupKey(last.pre, Len(rs), fresh)
                /\ env[e].key = fresh <=> AllEmpty(last.pre)

\* a pass over two recipients, the first empty, the second pre-populated
C13_Witness ==
    /\ EncryptedOk /\ WrapGroup(last.env)
    /\ Len(last.pre) = 2 /\ Distinct(env[last.env].recipients)
    /\ last.pre[1] = Empty /\ last.pre[2] \in Vals
    /\ Carried(last.env, 1) = Rand(nrand)
    /\ env[last.env].key = last.pre[2]

\* C14: encrypt on an Envelope whose recipients are all DirectKeyAgreement
\* asks the first recipient alone: the CEK is what its key agreement gives
\* for mode "encrypt" and the AEAD step follows, or its failure is the
\* failure of encrypt and the key stays as it was; what the other
\* recipients hold plays no part, and no recipient is modified.
C14_FirstAgrees ==
    [][\A e \in Envs :
         (encrypt(e) /\ KindsOf(e) = {"DirectKeyAgreement"})
             => LET first == obj[env[e].recipients[1]] IN
                /\ obj' = obj
                /\ env'[e].recipients = env[e].recipients
                /\ IF first.kek = NoKey
                   THEN /\ last'.err = "KeyNotSet"
                        /\ ~last'.aead
                        /\ env' = env
                   ELSE /\ last'.err = "none"
                        /\ last'.aead
                        /\ env'[e].key = Kdf(first.kek)]_vars

\* encrypt has agreed the key with the first of two recipients, the second
\* of which holds no key to agree with
C14_Witness ==
    LET rs == env[last.env].recipients IN
    /\ EncryptedOk /\ KindsOf(last.env) = {"DirectKeyAgreement"}
    /\ Len(rs) = 2
    /\ obj[rs[1]].kek \in Keks /\ obj[rs[2]].kek = NoKey
    /\ env[last.env].key = Kdf(obj[rs[1]].kek)
    /\ \A i \in DOMAIN rs : Carried(last.env, i) = Empty

\* C15: decrypt leaves the recipient list, the recipients and the stored
\* payload as they are; with a member recipient R of a uniform list, in
\* DirectEncryption mode the key stays the caller's, in the three other
\* modes the CEK is what R's key agreement gives for mode "decrypt" (the
\* agreed key, or the unwrapped carrier payload of R) and the AEAD step
\* follows, or R's failure is the failure of decrypt; the other
\* recipients play no part, whatever R's position.
C15_OnlyChosenConsulted ==
    [][\A e \in Envs, r \in Allocated :
         decrypt(e, r)
             => /\ obj' = obj
                /\ env'[e].recipients = env[e].recipients
                /\ env'[e].payload = env[e].payload
                /\ (r \in Range(env[e].recipients) /\ KindsOf(e) = {"DirectEncryption"})
                      => (env'[e].key = env[e].key /\ last'.aead)
                /\ (r \in Range(env[e].recipients) /\ KindsOf(e) = {"DirectKeyAgreement"})
                      => IF obj[r].kek = NoKey
                         THEN last'.err = "KeyNotSet" /\ ~last'.aead /\ env' = env
                         ELSE last'.aead /\ env'[e].key = Kdf(obj[r].kek)
                /\ (r \in Range(env[e].recipients) /\ WrapGroup(e))
                      => IF obj[r].kek # NoKey /\ IsWrapped(obj[r].kek, obj[r].payload)
                         THEN last'.aead /\ env'[e].key = Unwrap(obj[r].payload)
                         ELSE last'.err # "none" /\ ~last'.aead /\ env' = env]_vars

\* decrypt by the second of two recipients that hold different keys has
\* returned the plaintext
C15_Witness ==
    LET rs == env[last.env].recipients IN
    /\ last.op = "decrypt" /\ last.err = "none"
    /\ KindsOf(last.env) = {"DirectKeyAgreement"}
    /\ Len(rs) = 2 /\ last.arg = rs[2]
    /\ obj[rs[1]].kek # obj[rs[2]].kek
    /\ env[last.env].key = Kdf(obj[rs[2]].kek)
    /\ last.ret = Open(env[last.env].payload)

\* decrypt by the second of two key-wrap recipients has unwrapped its
\* carrier payload, not the first one's
C15_WrapWitness ==
    LET rs == env[last.env].recipients IN
    /\ last.op = "decrypt" /\ last.aead /\ WrapGroup(last.env)
    /\ Len(rs) = 2 /\ last.arg = rs[2]
    /\ obj[rs[1]].kek # obj[rs[2]].kek
    /\ env[last.env].key = Unwrap(obj[rs[2]].payload)

\* C16: on an Envelope whose recipient list is empty, so that no variant
\* is classified, encrypt fails with Unsupported Recipient Class, calls no
\* AEAD step, generates no key and leaves the Envelope (its key included)
\* and every recipient as they were; decrypt fails as well, without
\* calling the AEAD step.
C16_UnclassifiedRejected ==
    [][\A e \in Envs :
         /\ (encrypt(e) /\ Len(env[e].recipients) = 0)
               => /\ last'.err = "UnsupportedRecipientClass"
                  /\ ~last'.aead
                  /\ nrand' = nrand
                  /\ env' = env /\ obj' = obj
         /\ \A r \in Allocated :
               (decrypt(e, r) /\ Len(env[e].recipients) = 0)
                 => /\ last'.err # "none"
                    /\ ~last'.aead
                    /\ env' = env /\ obj' = obj]_vars

\* encrypt has failed on an Envelope without recipients and without a key,
\* while recipients exist that could have been attached
C16_Witness ==
    /\ last.op = "encrypt" /\ last.err = "UnsupportedRecipientClass"
    /\ Len(env[last.env].recipients) = 0
    /\ env[last.env].key = NoKey
    /\ nobj > 0 /\ nrand = 0

\* C17: a successful assignment of a sequence to the recipients property
\* leaves the Envelope's list equal to that sequence, whatever the list
\* held before; the assignment of None leaves it empty.
C17_AssignmentReplaces ==
    [][\A e \in Envs :
         /\ \A arg \in SeqsUpTo(Attachable, MaxArg) :
               (SetRecipients(e, FALSE, arg) /\ last'.err = "none")
                   => env'[e].recipients = arg
         /\ SetRecipients(e, TRUE, <<>>) => env'[e].recipients = <<>>]_vars

\* C18: a successful key-wrap encrypt leaves every recipient of the
\* Envelope with a non-empty carrier payload and the CEK equal to the last
\* one's; a non-empty carrier payload is never changed afterwards; and an
\* encrypt on a key-wrap Envelope whose carriers are all non-empty
\* succeeds, changes no recipient and settles on the carrier payload of
\* the last recipient, never on the key it generated. So an encrypt that
\* follows a successful key-wrap encrypt on the same Envelope settles on
\* the same CEK.
C18_LaterEncryptSameCEK ==
    [][/\ \A i \in 1..MaxObj : obj[i].payload # Empty => obj'[i].payload = obj[i].payload
       /\ \A e \in Envs :
            (encrypt(e) /\ WrapGroup(e)) =>
                LET rs == env[e].recipients IN
                /\ last'.err = "none" =>
                      /\ \A i \in DOMAIN rs : obj'[rs[i]].payload # Empty
                      /\ env'[e].key = obj'[rs[Len(rs)]].payload
                /\ (\A i \in DOMAIN rs : Carried(e, i) # Empty) =>
                      /\ last'.err = "none"
                      /\ obj' = obj
                      /\ env'[e].key = Carried(e, Len(rs))
                      /\ env'[e].key # Rand(nrand')
                /\ (last.op = "encrypt" /\ last.env = e /\ last.err = "none") =>
                      /\ last'.err = "none"
                      /\ env'[e].key = env[e].key]_vars

\* a second encrypt on a key-wrap Envelope has settled on the key the
\* first one generated
C18_Witness ==
    /\ EncryptedOk /\ WrapGroup(last.env)
    /\ nrand = 2
    /\ last.ret = Seal(Rand(1), env[last.env].payload)
    /\ \A i \in DOMAIN last.pre : last.pre[i] = Rand(1)
    /\ env[last.env].key = Rand(1)
====
